---- MODULE Spec2Model ----
(***************************************************************************)
(* KalAI: rule-based fish-activity scoring, lure recommendation and the    *)
(* Flask endpoints /predict, /nearby and /feedback.                        *)
(*                                                                         *)
(* Number representation (the Python code computes with floats):           *)
(*   - temperatures and wind speeds are in tenths (the weather generator   *)
(*     rounds them to one decimal): 12.5 C is 125, 1.5 m/s is 15;          *)
(*   - sub-scores and their sum are in hundredths of a point, so that      *)
(*     40 * 0.75, (pct / 100) * 30 and 20 * 1.15 * 0.5 are exact;          *)
(*   - a datetime is the number of whole seconds since 2000-01-06T00:00Z;  *)
(*   - lunar cycle positions are in ticks of 1/54,000,000 day (1/625 s),   *)
(*     the coarsest unit in which 29.530588 days, the phase boundaries     *)
(*     and whole seconds are all integers.                                 *)
(***************************************************************************)
EXTENDS Integers, Sequences, FiniteSets, TLC

Min(a, b) == IF a <= b THEN a ELSE b

Max(a, b) == IF a >= b THEN a ELSE b

\* dict.get(key, default)
Get(d, k, default) == IF k \in DOMAIN d THEN d[k] ELSE default

\* d[key] raising KeyError is modelled by the callers testing HasKey first
HasKey(d, k) == k \in DOMAIN d

KeyError(k) == [error |-> "KeyError", key |-> k]

IsError(r) == "error" \in DOMAIN r

(***************************************************************************)
(* kalai/utils/environmental.py                                            *)
(***************************************************************************)

\* Mutant of time_of_day_label: the dawn window includes the sunrise hour.
time_of_day_label_inclusive(hour, sunrise_h, sunset_h) ==
    IF (sunrise_h - 2) <= hour /\ hour <= sunrise_h THEN "dawn"
    ELSE IF sunrise_h <= hour /\ hour < sunset_h THEN "day"
    ELSE IF sunset_h <= hour /\ hour < (sunset_h + 2) THEN "dusk"
    ELSE "night"

\* time_of_day_label(hour, sunrise_h, sunset_h)
time_of_day_label(hour, sunrise_h, sunset_h) ==
    IF (sunrise_h - 2) <= hour /\ hour < sunrise_h THEN "dawn"
    ELSE IF sunrise_h <= hour /\ hour < sunset_h THEN "day"
    ELSE IF sunset_h <= hour /\ hour < (sunset_h + 2) THEN "dusk"
    ELSE "night"

\* datetime: whole seconds since 2000-01-06T00:00:00Z; dt.hour
HourOf(dt) == (dt \div 3600) % 24

\* known_new_moon = datetime(2000, 1, 6, 18, 14, tzinfo=timezone.utc)
known_new_moon == 18 * 3600 + 14 * 60

\* ticks per second: total_seconds() / 86400 days, a day being 54,000,000 ticks
TicksPerSecond == 54000000 \div 86400

\* 29.530588 days in ticks
SYNODIC_MONTH == 29530588 * 54

\* a phase boundary given in hundredths of a day (1.84 days is 184), in ticks
DayMark(hundredths) == hundredths * 540000

\* Mutant of cycle_fraction: math.fmod, whose result has the sign of the dividend.
cycle_fraction_fmod(dt) ==
    LET t == (dt - known_new_moon) * TicksPerSecond
    IN  IF t >= 0 THEN t % SYNODIC_MONTH ELSE 0 - ((0 - t) % SYNODIC_MONTH)

\* days_since_new_moon % 29.530588, in ticks. Python's % takes the sign of the
\* divisor, as TLA+'s % does: a dt before the epoch gives a position in
\* [0, SYNODIC_MONTH) too.
cycle_fraction(dt) == ((dt - known_new_moon) * TicksPerSecond) % SYNODIC_MONTH

\* IlluminationMarks[k]: the least cycle position (ticks, in the waxing half)
\* at which 0.5 * (1 - cos(2 * pi * position / 29.530588)) rounds to k/100 or
\* more, that is ceil(SYNODIC_MONTH * acos(1 - (2k - 1) / 100) / (2 * pi)).
IlluminationMarks == <<
    35922253, 62323721, 80595792, 95524890, 108501206,
    120160346, 130856062, 140809215, 150168631, 159040239,
    167502613, 175615947, 183427574, 190975521, 198290891,
    205399523, 212323165, 219080337, 225686977, 232156920,
    238502282, 244733749, 250860812, 256891953, 262834800,
    268696245, 274482549, 280199432, 285852135, 291445488,
    296983959, 302471696, 307912569, 313310198, 318667984,
    323989135, 329276687, 334533521, 339762386, 344965910,
    350146615, 355306931, 360449206, 365575721, 370688691,
    375790285, 380882628, 385967810, 391047895, 396124929,
    401200948, 406277982, 411358067, 416443249, 421535592,
    426637186, 431750156, 436876671, 442018946, 447179262,
    452359967, 457563491, 462792356, 468049190, 473336742,
    478657893, 484015679, 489413308, 494854181, 500341918,
    505880389, 511473742, 517126445, 522843328, 528629632,
    534491077, 540433924, 546465065, 552592128, 558823595,
    565168957, 571638900, 578245540, 585002712, 591926354,
    599034986, 606350356, 613898303, 621709930, 629823264,
    638285638, 647157246, 656516662, 666469815, 677165531,
    688824671, 701800987, 716730085, 735002156, 761403624>>

\* round(illumination_frac, 2) in hundredths; the cosine is symmetric about
\* the middle of the cycle.
illumination_frac(position) ==
    LET waxing == IF position <= SYNODIC_MONTH - position
                  THEN position ELSE SYNODIC_MONTH - position
    IN  Cardinality({k \in 1..Len(IlluminationMarks) : waxing >= IlluminationMarks[k]})

phase_name(position) ==
    IF 0 <= position /\ position < DayMark(184) THEN "New Moon"
    ELSE IF DayMark(184) <= position /\ position < DayMark(553) THEN "Waxing Crescent"
    ELSE IF DayMark(553) <= position /\ position < DayMark(922) THEN "First Quarter"
    ELSE IF DayMark(922) <= position /\ position < DayMark(1291) THEN "Waxing Gibbous"
    ELSE IF DayMark(1291) <= position /\ position < DayMark(1660) THEN "Full Moon"
    ELSE IF DayMark(1660) <= position /\ position < DayMark(2029) THEN "Waning Gibbous"
    ELSE IF DayMark(2029) <= position /\ position < DayMark(2398) THEN "Last Quarter"
    ELSE IF DayMark(2398) <= position /\ position < DayMark(2767) THEN "Waning Crescent"
    ELSE "New Moon"

\* get_moon_phase(dt) -> (phase, illumination in hundredths)
get_moon_phase(dt) ==
    LET position == cycle_fraction(dt)
    IN  <<phase_name(position), illumination_frac(position)>>

(***************************************************************************)
(* kalai/model/rule_based_model.py                                         *)
(***************************************************************************)

WEIGHTS == [temperature |-> 40, time_of_day |-> 30, moon_phase |-> 20, wind_speed |-> 10]

\* multipliers in hundredths: 1.15, 1.2, 1.1
MOON_MULTIPLIERS == ("New Moon" :> 115) @@ ("Full Moon" :> 120) @@ ("Waxing Gibbous" :> 110)

\* The temperature sub-score (hundredths of a point) and its note.
temp_score(low, high, water_temp) ==
    IF low <= water_temp /\ water_temp <= high
    THEN [score |-> WEIGHTS.temperature * 100, note |-> "optimal"]
    ELSE IF (low - 30) <= water_temp /\ water_temp <= (high + 30)
    THEN [score |-> WEIGHTS.temperature * 75, note |-> "acceptable"]
    ELSE [score |-> WEIGHTS.temperature * 20, note |-> "too far"]

\* Mutant of wind_score: the wind window excludes its end points.
wind_score_exclusive(wind_speed, cloud_cover) ==
    LET a == IF 15 < wind_speed /\ wind_speed < 50 THEN 500 ELSE 0
        b == IF cloud_cover >= 75 THEN 500 ELSE 0
    IN  Min(WEIGHTS.wind_speed * 100, Max(0, a + b))

\* The wind/cloud sub-score (hundredths of a point), clamped to the weight.
wind_score(wind_speed, cloud_cover) ==
    LET a == IF 15 <= wind_speed /\ wind_speed <= 50 THEN 500 ELSE 0
        b == IF cloud_cover >= 75 THEN 500 ELSE 0
    IN  Min(WEIGHTS.wind_speed * 100, Max(0, a + b))

\* Mutant of final_score: int(score), the clamp forgotten.
final_score_unclamped(score) == score \div 100

\* int(min(100, max(0, score))) of a score in hundredths: int() truncates
\* toward zero, which on the clamped (non-negative) value is \div.
final_score(score) == Min(10000, Max(0, score)) \div 100

\* The body of rule_based_activity_score once the profile's fields are read:
\* the four sub-scores, their sum, the final score and the explanation.
score_profile(low, high, preferred_times_json, display_name, weather_data, current_h) ==
    LET water_temp == Get(weather_data, "water_temp_c", 150)
        t == temp_score(low, high, water_temp)
        time_label == time_of_day_label(current_h, weather_data.sunrise_h, weather_data.sunset_h)
        time_base_score == Get(preferred_times_json, time_label, 0)
        time_score == time_base_score * WEIGHTS.time_of_day
        moon_phase == Get(weather_data, "moon_phase", "Waxing Gibbous")
        moon_multiplier == Get(MOON_MULTIPLIERS, moon_phase, 100)
        moon_score == (WEIGHTS.moon_phase * moon_multiplier) \div 2
        w == wind_score(Get(weather_data, "wind_speed_ms", 30),
                        Get(weather_data, "cloud_cover_percent", 50))
        score == t.score + time_score + moon_score + w
    IN  [score |-> final_score(score),
         explanation |-> <<display_name, t.note, time_label, time_base_score, moon_phase>>]

\* Mutant of rule_based_activity_score: the profile's fields read with
\* .get() and a default instead of [].
rule_based_activity_score_defaults(species_profile, weather_data, current_h) ==
    IF ~HasKey(weather_data, "sunrise_h") THEN KeyError("sunrise_h")
    ELSE IF ~HasKey(weather_data, "sunset_h") THEN KeyError("sunset_h")
    ELSE score_profile(Get(species_profile, "best_temp_low", 100),
                       Get(species_profile, "best_temp_high", 180),
                       Get(species_profile, "preferred_times_json", << >>),
                       Get(species_profile, "display_name", "Unknown"),
                       weather_data, current_h)

\* rule_based_activity_score(species_profile, weather_data, current_time);
\* current_h is current_time.hour, the only part of current_time it reads.
\* The keys read with [] raise KeyError in the order the code reads them.
rule_based_activity_score(species_profile, weather_data, current_h) ==
    IF ~HasKey(species_profile, "best_temp_low") THEN KeyError("best_temp_low")
    ELSE IF ~HasKey(species_profile, "best_temp_high") THEN KeyError("best_temp_high")
    ELSE IF ~HasKey(weather_data, "sunrise_h") THEN KeyError("sunrise_h")
    ELSE IF ~HasKey(weather_data, "sunset_h") THEN KeyError("sunset_h")
    ELSE IF ~HasKey(species_profile, "preferred_times_json") THEN KeyError("preferred_times_json")
    ELSE IF ~HasKey(species_profile, "display_name") THEN KeyError("display_name")
    ELSE score_profile(species_profile.best_temp_low, species_profile.best_temp_high,
                       species_profile.preferred_times_json, species_profile.display_name,
                       weather_data, current_h)

(***************************************************************************)
(* kalai/model/lure_recommender.py                                         *)
(***************************************************************************)

\* Mutant of feeding_mode: 75 counted as aggressive.
feeding_mode_inclusive(activity_score) ==
    IF activity_score >= 75 THEN "aggressive"
    ELSE IF activity_score >= 40 THEN "moderate"
    ELSE "passive"

feeding_mode(activity_score) ==
    IF activity_score > 75 THEN "aggressive"
    ELSE IF activity_score >= 40 THEN "moderate"
    ELSE "passive"

\* Mutant of score_lure: the cloud bonus given from 70 percent on.
score_lure_cloud_inclusive(lure, context) ==
    LET s1 == 20 + (IF context.feeding_mode \in lure.best_modes THEN 30 ELSE 0)
        s2 == s1 + (IF context.water_temp < 100 /\ lure.speed = "slow" THEN 15
                    ELSE IF context.water_temp >= 100 /\ lure.speed = "fast" THEN 10
                    ELSE 0)
        s3 == s2 + (IF context.cloud_cover >= 70 /\ lure.visibility = "high" THEN 15 ELSE 0)
        s4 == s3 + (IF context.wind_speed > 40 /\ lure.type = "reaction" THEN 10 ELSE 0)
    IN  Min(s4, 100)

\* score_lure(lure, context); context.water_temp and context.wind_speed in tenths
score_lure(lure, context) ==
    LET s1 == 20 + (IF context.feeding_mode \in lure.best_modes THEN 30 ELSE 0)
        s2 == s1 + (IF context.water_temp < 100 /\ lure.speed = "slow" THEN 15
                    ELSE IF context.water_temp >= 100 /\ lure.speed = "fast" THEN 10
                    ELSE 0)
        s3 == s2 + (IF context.cloud_cover > 70 /\ lure.visibility = "high" THEN 15 ELSE 0)
        s4 == s3 + (IF context.wind_speed > 40 /\ lure.type = "reaction" THEN 10 ELSE 0)
    IN  Min(s4, 100)

\* Mutant of InsertDesc: an element goes before those with an equal key, which
\* makes the sort reverse the order of ties.
RECURSIVE InsertDescBeforeTies(_, _)
InsertDescBeforeTies(sorted, x) ==
    IF sorted = <<>> THEN <<x>>
    ELSE IF sorted[1].key <= x.key THEN <<x>> \o sorted
    ELSE <<sorted[1]>> \o InsertDescBeforeTies(Tail(sorted), x)

\* list.insert keeping a descending order, after every element with an equal
\* key: the building block of a stable descending sort.
RECURSIVE InsertDesc(_, _)
InsertDesc(sorted, x) ==
    IF sorted = <<>> THEN <<x>>
    ELSE IF sorted[1].key < x.key THEN <<x>> \o sorted
    ELSE <<sorted[1]>> \o InsertDesc(Tail(sorted), x)

\* sorted(seq, key=..., reverse=True): Python's sort is stable, and with
\* reverse=True elements with equal keys keep their original order. Elements
\* are [key, item] pairs.
RECURSIVE SortedDesc(_)
SortedDesc(seq) ==
    IF seq = <<>> THEN <<>>
    ELSE InsertDesc(SortedDesc(SubSeq(seq, 1, Len(seq) - 1)), seq[Len(seq)])

\* Mutant of Slice: the whole sequence, the truncation forgotten.
Slice_whole(seq, n) == seq

\* seq[:n]: the first n elements; a negative n drops the last -n.
Slice(seq, n) ==
    IF n >= 0 THEN SubSeq(seq, 1, Min(n, Len(seq)))
    ELSE SubSeq(seq, 1, Max(0, Len(seq) + n))

\* recommended_lures(species_profile, context, top_n)
recommended_lures(species_profile, context, top_n) ==
    LET lures == Get(species_profile, "lures", <<>>)
        scored == [i \in 1..Len(lures) |->
                     [name |-> lures[i].name, confidence |-> score_lure(lures[i], context)]]
        keyed == [i \in 1..Len(scored) |-> [key |-> scored[i].confidence, item |-> scored[i]]]
        ranked == SortedDesc(keyed)
    IN  Slice([i \in 1..Len(ranked) |-> ranked[i].item], top_n)

(***************************************************************************)
(* State.  SPECIES_PROFILES and USER_LOGS are the module-level globals of  *)
(* app.py; request and response are the /predict request being handled and *)
(* the last HTTP response sent; call is the last call of a function of the  *)
(* core made directly (as a test or another caller would), with its         *)
(* arguments and what it returned.                                          *)
(***************************************************************************)
VARIABLES SPECIES_PROFILES, USER_LOGS, request, response, call

vars == <<SPECIES_PROFILES, USER_LOGS, request, response, call>>

\* a record without one of its fields
Drop(r, k) == [x \in DOMAIN r \ {k} |-> r[x]]

Modes == {"aggressive", "moderate", "passive"}

Spoon == [name |-> "Spoon", best_modes |-> {"aggressive"}, speed |-> "fast",
          visibility |-> "high", type |-> "reaction"]

Jig == [name |-> "Jig", best_modes |-> {"passive", "moderate"}, speed |-> "slow",
        visibility |-> "low", type |-> "finesse"]

Jerkbait == [name |-> "Jerkbait", best_modes |-> {"aggressive", "moderate"}, speed |-> "fast",
             visibility |-> "high", type |-> "reaction"]

Softbait == [name |-> "Softbait", best_modes |-> {"passive"}, speed |-> "slow",
             visibility |-> "high", type |-> "finesse"]

LurePool == {Spoon, Jig, Jerkbait, Softbait}

\* A species profile as species_db.json holds it (temperatures in tenths).
Pike == [key |-> "pike", display_name |-> "Northern Pike",
         best_temp_low |-> 100, best_temp_high |-> 180,
         preferred_times_json |-> [dawn |-> 90, day |-> 40, dusk |-> 100, night |-> 20],
         lures |-> <<Spoon, Jig, Jerkbait, Softbait>>]

RequiredProfileFields == {"best_temp_low", "best_temp_high", "preferred_times_json", "display_name"}

NoCall == [fn |-> "none"]

(***************************************************************************)
(* Direct calls of the core's functions, over bounded inputs.              *)
(***************************************************************************)

\* longest lure catalog a profile is given in a direct call
MaxLures == 3

\* largest top_n a direct call passes
MaxTopN == 4

\* days before and after the reference new moon that get_moon_phase is asked about
MoonDays == 38

\* sequences over S of length at most n
RECURSIVE SeqsUpTo(_, _)
SeqsUpTo(S, n) ==
    IF n = 0 THEN {<<>>}
    ELSE LET shorter == SeqsUpTo(S, n - 1)
         IN  shorter \cup {Append(q, x) : q \in shorter, x \in S}

\* preferred_times_json maps given to the scorer: every percentage 0..100 for
\* dawn, its complement for day, no entry for dusk and night; and two maps
\* with percentages outside 0..100.
ScorePrefs ==
    {[dawn |-> k, day |-> 100 - k] : k \in 0..100}
        \cup {[dawn |-> 250, day |-> 0 - 400], [night |-> 100, dusk |-> 0]}

ScoreProfiles ==
    {[key |-> "pike", display_name |-> "Northern Pike", best_temp_low |-> 50,
      best_temp_high |-> 120, preferred_times_json |-> prefs] : prefs \in ScorePrefs}
        \cup {[Pike EXCEPT !.best_temp_low = 100, !.best_temp_high = 100]}
        \cup {Drop(Pike, k) : k \in RequiredProfileFields}

FullWeather ==
    [water_temp_c : {19, 20, 49, 50, 120, 121, 150, 151}, wind_speed_ms : {14, 15, 50, 51},
     cloud_cover_percent : {74, 75}, sunrise_h : {7}, sunset_h : {16},
     moon_phase : {"New Moon", "Full Moon", "Waxing Gibbous", "Last Quarter"}]

\* snapshots without some of the keys the scorer reads with a default or with []
PartialWeather ==
    {Drop(w, k) : w \in {[water_temp_c |-> 69, wind_speed_ms |-> 30, cloud_cover_percent |-> 90,
                          sunrise_h |-> 7, sunset_h |-> 16, moon_phase |-> "Full Moon"]},
                  k \in {"water_temp_c", "wind_speed_ms", "cloud_cover_percent", "moon_phase",
                         "sunrise_h", "sunset_h"}}

Returned(fn, args, result) == [fn |-> fn, args |-> args, result |-> result]

CallScore ==
    /\ call = NoCall
    /\ \E p \in ScoreProfiles, w \in FullWeather \cup PartialWeather, h \in {2, 6, 12, 17} :
        /\ call' = Returned("rule_based_activity_score", <<p, w, h>>,
                            rule_based_activity_score(p, w, h))
        /\ UNCHANGED <<SPECIES_PROFILES, USER_LOGS, request, response>>

CallFeedingMode ==
    /\ call = NoCall
    /\ \E s \in (0 - 30)..130 :
        /\ call' = Returned("feeding_mode", <<s>>, feeding_mode(s))
        /\ UNCHANGED <<SPECIES_PROFILES, USER_LOGS, request, response>>

CallScoreLure ==
    /\ call = NoCall
    /\ \E lure \in [name : {"Lure"}, best_modes : {{}, {"aggressive"}, {"moderate", "passive"}},
                 speed : {"slow", "fast", "medium"}, visibility : {"high", "low"},
                 type : {"reaction", "finesse"}],
       context \in [feeding_mode : Modes, water_temp : {50, 99, 100, 150},
                    cloud_cover : {70, 71, 80}, wind_speed : {40, 41, 50}] :
        /\ call' = Returned("score_lure", <<lure, context>>, score_lure(lure, context))
        /\ UNCHANGED <<SPECIES_PROFILES, USER_LOGS, request, response>>

CallRecommendedLures ==
    /\ call = NoCall
    /\ \E p \in {[Pike EXCEPT !.lures = q] : q \in SeqsUpTo(LurePool, MaxLures)}
                \cup {Drop(Pike, "lures")},
       context \in [feeding_mode : {"aggressive", "passive"}, water_temp : {50, 150},
                    cloud_cover : {30, 90}, wind_speed : {50}],
       top_n \in (0 - 1)..MaxTopN :
        /\ call' = Returned("recommended_lures", <<p, context, top_n>>,
                            recommended_lures(p, context, top_n))
        /\ UNCHANGED <<SPECIES_PROFILES, USER_LOGS, request, response>>

CallTimeOfDayLabel ==
    /\ call = NoCall
    /\ \E hour \in 0..23, sunrise_h \in (0 - 1)..12,
       sunset_h \in {0, 1, 5, 8, 16, 17, 22, 23, 24} :
        /\ call' = Returned("time_of_day_label", <<hour, sunrise_h, sunset_h>>,
                            time_of_day_label(hour, sunrise_h, sunset_h))
        /\ UNCHANGED <<SPECIES_PROFILES, USER_LOGS, request, response>>

\* datetimes at every hundredth of a day around the reference new moon, and
\* one second before and after each
CallGetMoonPhase ==
    /\ call = NoCall
    /\ \E h \in (0 - MoonDays * 100)..(MoonDays * 100), e \in {0 - 1, 0, 1} :
        LET dt == known_new_moon + h * 864 + e
        IN  /\ call' = Returned("get_moon_phase", <<dt>>, get_moon_phase(dt))
            /\ UNCHANGED <<SPECIES_PROFILES, USER_LOGS, request, response>>

\* No request is being handled and no function of the core has been called.
InitCore ==
    /\ SPECIES_PROFILES = ("pike" :> Pike)
    /\ USER_LOGS = <<>>
    /\ request = [pc |-> "idle"]
    /\ response = [endpoint |-> "none", status |-> 0]
    /\ call = NoCall

NextCore ==
    \/ CallScore
    \/ CallFeedingMode
    \/ CallScoreLure
    \/ CallRecommendedLures
    \/ CallTimeOfDayLabel
    \/ CallGetMoonPhase

SpecCore == InitCore /\ [][NextCore]_vars

(***************************************************************************)
(* app.py: the Flask application.  Requests are followed one after the     *)
(* other: a /predict request through its 24-hour loop (request holds its   *)
(* local variables), a /nearby or /feedback request in one step.  The only *)
(* state handlers share is USER_LOGS, which only /feedback reads or        *)
(* writes, so steps of a /predict request commute with the other handlers. *)
(* response is the response to the request last begun: none while a        *)
(* /predict request is in its loop.                                        *)
(***************************************************************************)

\* longest USER_LOGS followed
MaxLogs == 2

\* range(24)
HOURS_AHEAD == 24

\* best_time_windows[:3]
TOP_WINDOWS == 3

\* recommended_lures(species_profile, context, top_n=3)
TOP_LURES == 3

\* datetime.now(timezone.utc) when a request is handled: 03:00 on the day of
\* the reference new moon (the 24 hours cross it), 10:00 five days later
\* (Waxing Crescent) and 16:30 fourteen days later (Full Moon).
Times == {3 * 3600, 5 * 86400 + 10 * 3600, 14 * 86400 + 16 * 3600 + 1800}

\* species_db.json as load_species_db reads it: a complete profile and four
\* profiles that each lack one of the fields the scorer reads (the loader
\* validates nothing).
SpeciesDb ==
    <<Pike,
      Drop([Pike EXCEPT !.key = "perch", !.display_name = "Perch"], "best_temp_low"),
      Drop([Pike EXCEPT !.key = "trout", !.display_name = "Trout"], "best_temp_high"),
      Drop([Pike EXCEPT !.key = "zander", !.display_name = "Zander"], "preferred_times_json"),
      Drop([Pike EXCEPT !.key = "bream"], "display_name")>>

\* load_species_db(): {sp['key']: sp for sp in json.load(f)}, or {} when the
\* file is not found
load_species_db(found) ==
    IF found
    THEN [k \in {SpeciesDb[i].key : i \in 1..Len(SpeciesDb)} |->
            SpeciesDb[CHOOSE i \in 1..Len(SpeciesDb) :
                        /\ SpeciesDb[i].key = k
                        /\ \A j \in (i + 1)..Len(SpeciesDb) : SpeciesDb[j].key # k]]
    ELSE << >>

\* str.lower() on the strings the model's requests carry
lower(str) ==
    CASE str = "PIKE" -> "pike"
      [] str = "Pike" -> "pike"
      [] OTHER -> str

None == [none |-> TRUE]

\* get_species_profile(species_key): SPECIES_PROFILES.get(species_key.lower())
get_species_profile(profiles, species_key) == Get(profiles, lower(species_key), None)

\* What read_water_sensor_mock() and the random draws of get_simulated_weather
\* can give, four of the possible draws: wind 1.0..7.0 m/s, cloud cover
\* 30..90 percent, and a water temperature that is the reading of the sensor
\* when there is one (any temperature, here 4.0 C) and 8.0..18.0 C otherwise.
WeatherDraws ==
    {[water_temp_c |-> 120, wind_speed_ms |-> 30, cloud_cover_percent |-> 90],
     [water_temp_c |-> 120, wind_speed_ms |-> 10, cloud_cover_percent |-> 30],
     [water_temp_c |-> 80, wind_speed_ms |-> 30, cloud_cover_percent |-> 30],
     [water_temp_c |-> 40, wind_speed_ms |-> 30, cloud_cover_percent |-> 90]}

\* get_simulated_weather(lat, lon, dt): the snapshots it can return. temp_c,
\* pressure_hpa and humidity_percent, which nothing reads, are left out.
get_simulated_weather(dt) ==
    LET moon == get_moon_phase(dt)
    IN  {[water_temp_c |-> d.water_temp_c, wind_speed_ms |-> d.wind_speed_ms,
          cloud_cover_percent |-> d.cloud_cover_percent,
          sunrise_h |-> 7, sunset_h |-> 16, current_time |-> dt,
          moon_phase |-> moon[1], moon_fraction |-> moon[2],
          model_source |-> "SIMULATED_DATA"] : d \in WeatherDraws}

\* a query parameter or JSON value: a number, or a string that is not one
Num(x) == [num |-> x]

Str(x) == [str |-> x]

IsNum(v) == "num" \in DOMAIN v

\* request.args.get(name, type=float): None when absent or not a float
ArgFloat(args, name) == IF name \in DOMAIN args /\ IsNum(args[name]) THEN args[name] ELSE None

\* the query strings of the /predict requests followed (lat and lon in
\* thousandths of a degree)
PredictArgs ==
    {[lat |-> Num(60176), lon |-> Num(24940), species |-> sp] :
        sp \in {"pike", "PIKE", "carp", "perch", "trout", "zander", "bream"}}
      \cup {[lat |-> Num(60176), lon |-> Num(24940)],
            [lon |-> Num(24940), species |-> "pike"],
            [lat |-> Str("north"), lon |-> Num(24940), species |-> "pike"]}

Idle == [pc |-> "idle"]

NoResponse == [endpoint |-> "none", status |-> 0]

Response(endpoint, req, status, body) ==
    [endpoint |-> endpoint, request |-> req, status |-> status, body |-> body]

\* predict(), lines 83-98: the parameters, the species lookup, the request
\* time, its weather, and the empty list of windows.
PredictStart ==
    /\ request = Idle
    /\ \E args \in PredictArgs, now \in Times :
        LET lat == ArgFloat(args, "lat")
            lon == ArgFloat(args, "lon")
            species_key == lower(Get(args, "species", "pike"))
            species_profile == get_species_profile(SPECIES_PROFILES, species_key)
        IN  IF lat = None \/ lon = None
            THEN /\ response' = Response("predict", args, 400,
                                         [error |-> "Missing 'lat' or 'lon' query parameters"])
                 /\ UNCHANGED request
            ELSE IF species_profile = None
            THEN /\ response' = Response("predict", args, 404, [error |-> "Species not found."])
                 /\ UNCHANGED request
            ELSE \E weather_data \in get_simulated_weather(now) :
                    /\ request' = [pc |-> "loop", lat |-> lat.num, lon |-> lon.num,
                                   species_key |-> species_key, species_profile |-> species_profile, current_time |-> now,
                                   weather_data |-> weather_data, best_time_windows |-> <<>>,
                                   i |-> 0, score |-> 0 - 1]
                    /\ response' = NoResponse
    /\ UNCHANGED <<SPECIES_PROFILES, USER_LOGS, call>>

\* the parameters of the /predict request in its loop, as parsed
Parsed(req) == [lat |-> Num(req.lat), lon |-> Num(req.lon), species |-> req.species_key]

\* predict(), lines 100-110: one iteration of the loop over the 24 hours. An
\* exception of the scorer ends the request with a 500 response.
PredictHour ==
    /\ request.pc = "loop"
    /\ request.i < HOURS_AHEAD
    /\ LET dt_hour == request.current_time + request.i * 3600
       IN  \E hourly_weather \in get_simulated_weather(dt_hour) :
            LET r == rule_based_activity_score(request.species_profile, hourly_weather,
                                               HourOf(dt_hour))
            IN  IF IsError(r)
                THEN /\ request' = Idle
                     /\ response' = Response("predict", Parsed(request), 500, r)
                ELSE /\ request' =
                          [request EXCEPT
                             !.i = @ + 1,
                             !.score = r.score,
                             !.best_time_windows =
                                 IF r.score > 75
                                 THEN Append(@, [start |-> dt_hour, end |-> dt_hour + 3600,
                                                 score |-> r.score])
                                 ELSE @]
                     /\ UNCHANGED response
    /\ UNCHANGED <<SPECIES_PROFILES, USER_LOGS, call>>

\* best_time_windows.sort(key=lambda x: x['score'], reverse=True)
sort_by_score(windows) ==
    LET keyed == [k \in 1..Len(windows) |-> [key |-> windows[k].score, item |-> windows[k]]]
        ranked == SortedDesc(keyed)
    IN  [k \in 1..Len(ranked) |-> ranked[k].item]

\* "high" if current_score > 75 else "medium" if current_score > 40 else "low"
activity_label(current_score) ==
    IF current_score > 75 THEN "high"
    ELSE IF current_score > 40 THEN "medium"
    ELSE "low"

\* predict(), lines 112-142: after the loop, the three best windows, the
\* current score, the feeding mode, the lures and the response.
PredictFinish ==
    /\ request.pc = "loop"
    /\ request.i = HOURS_AHEAD
    /\ LET best_time_windows == Slice(sort_by_score(request.best_time_windows), TOP_WINDOWS)
           r == rule_based_activity_score(request.species_profile, request.weather_data,
                                          HourOf(request.current_time))
       IN  IF IsError(r)
           THEN response' = Response("predict", Parsed(request), 500, r)
           ELSE LET mode == feeding_mode(r.score)
                    context == [feeding_mode |-> mode,
                                water_temp |-> request.weather_data.water_temp_c,
                                cloud_cover |-> request.weather_data.cloud_cover_percent,
                                wind_speed |-> request.weather_data.wind_speed_ms]
                IN  response' =
                      Response("predict", Parsed(request), 200,
                         [location |-> [lat |-> request.lat, lon |-> request.lon],
                          species |-> request.species_profile.key,
                          activity_score |-> r.score,
                          activity_label |-> activity_label(r.score),
                          best_time_windows |-> best_time_windows,
                          feeding_mode |-> mode,
                          recommended_lures |->
                              recommended_lures(request.species_profile, context, TOP_LURES),
                          explanation |-> r.explanation,
                          model_used |-> "rule_based"])
    /\ request' = Idle
    /\ UNCHANGED <<SPECIES_PROFILES, USER_LOGS, call>>

\* nearby(): two fixed waterbodies
Nearby ==
    /\ request = Idle
    /\ response' = Response("nearby", [lat |-> Num(60170), lon |-> Num(24940)], 200,
                            [waterbodies |-> <<"Seurasaarenselka", "Vantaanjoki (River Vantaa)">>,
                             source |-> "SIMULATED_OVERPASS"])
    /\ UNCHANGED <<SPECIES_PROFILES, USER_LOGS, request, call>>

\* round(x, 2) of a number in thousandths, in hundredths (no sample is a tie)
round2(x) == IF x >= 0 THEN (x + 5) \div 10 ELSE 0 - ((5 - x) \div 10)

\* the JSON bodies of the /feedback requests followed
FeedbackBodies ==
    {[lat |-> Num(60176), lon |-> Num(24940), species |-> "pike", caught |-> TRUE],
     [lat |-> Num(60176), lon |-> Num(24940), species |-> "Pike", caught |-> FALSE,
      notes |-> "windy"],
     [lat |-> Num(60176), lon |-> Num(24940), species |-> "pike"],
     [lat |-> Num(60176), lon |-> Num(24940), species |-> "carp", caught |-> TRUE],
     [lat |-> Str("60.176"), lon |-> Num(24940), species |-> "pike", caught |-> TRUE]}

\* datetime.now(timezone.utc) when a /feedback request is handled
FeedbackTimes == {14 * 86400 + 16 * 3600 + 1800}

FeedbackFields == {"lat", "lon", "species", "caught"}

\* submit_feedback(): the checks, the log entry (round() of a value that is
\* not a number raises TypeError: a 500 response), the append and the count.
Feedback ==
    /\ request = Idle
    /\ \E data \in FeedbackBodies :
        IF ~(FeedbackFields \subseteq DOMAIN data)
        THEN /\ response' = Response("feedback", data, 400,
                                     [error |-> "Missing required fields in body"])
             /\ UNCHANGED USER_LOGS
        ELSE IF get_species_profile(SPECIES_PROFILES, data.species) = None
        THEN /\ response' = Response("feedback", data, 404,
                                     [error |-> "Species not found for logging."])
             /\ UNCHANGED USER_LOGS
        ELSE IF ~(IsNum(data.lat) /\ IsNum(data.lon))
        THEN /\ response' = Response("feedback", data, 500, [error |-> "TypeError"])
             /\ UNCHANGED USER_LOGS
        ELSE \E now \in FeedbackTimes :
               LET log_entry == [timestamp |-> now, species |-> data.species,
                                 caught |-> data.caught, notes |-> Get(data, "notes", ""),
                                 approx_location |-> <<round2(data.lat.num), round2(data.lon.num)>>]
               IN  /\ Len(USER_LOGS) < MaxLogs
                   /\ USER_LOGS' = Append(USER_LOGS, log_entry)
                   /\ response' = Response("feedback", data, 201,
                                           [message |-> "Feedback logged successfully to in-memory logs.",
                                            total_logs |-> Len(USER_LOGS')])
    /\ UNCHANGED <<SPECIES_PROFILES, request, call>>

\* The module has been imported: the catalog is loaded (or empty, the file
\* missing), the log is empty, no request has been handled.
Init ==
    /\ SPECIES_PROFILES \in {load_species_db(TRUE), load_species_db(FALSE)}
    /\ USER_LOGS = <<>>
    /\ request = Idle
    /\ response = NoResponse
    /\ call = NoCall

Next ==
    \/ PredictStart
    \/ PredictHour
    \/ PredictFinish
    \/ Nearby
    \/ Feedback

Spec == Init /\ [][Next]_vars

(***************************************************************************)
(* Properties of the core's functions, checked under SpecCore.             *)
(***************************************************************************)

HasRequiredFields(p) == RequiredProfileFields \subseteq DOMAIN p

\* best_temp_low <= best_temp_high and every preference percentage in 0..100
ValidProfile(p) ==
    /\ HasRequiredFields(p)
    /\ p.best_temp_low <= p.best_temp_high
    /\ \A l \in DOMAIN p.preferred_times_json : p.preferred_times_json[l] \in 0..100

HasSunTimes(w) == {"sunrise_h", "sunset_h"} \subseteq DOMAIN w

IsCall(fn) == call.fn = fn

\* C1: rule_based_activity_score returns an integer score s with 0 <= s <= 100
\* for every species profile with best_temp_low <= best_temp_high and
\* preference percentages in 0..100, every weather snapshot and every hour.
\* The formula covers every profile that has the required fields, the valid
\* ones included: the final clamp is what bounds the score of the others.
C1_ScoreInRange ==
    (IsCall("rule_based_activity_score") /\ HasRequiredFields(call.args[1])
        /\ HasSunTimes(call.args[2]))
    => (~IsError(call.result) /\ call.result.score \in 0..100)

\* a valid profile at its best: 40 + 30 + 12 + 10
C1_Witness ==
    /\ IsCall("rule_based_activity_score")
    /\ ValidProfile(call.args[1])
    /\ ~IsError(call.result)
    /\ call.result.score = 92

\* The sum the claim C2 gives, in tenths of a point:
\* T + (pct / 100) * 30 + 20 * m * 0.5 + W.
C2_Sum(p, w, h) ==
    LET low == p.best_temp_low
        high == p.best_temp_high
        temp == w.water_temp_c
        T == IF low <= temp /\ temp <= high THEN 40
             ELSE IF low - 30 <= temp /\ temp <= high + 30 THEN 30
             ELSE 8
        label == time_of_day_label(h, w.sunrise_h, w.sunset_h)
        pct == IF label \in DOMAIN p.preferred_times_json
               THEN p.preferred_times_json[label] ELSE 0
        tenM == CASE w.moon_phase = "New Moon" -> 115
                  [] w.moon_phase = "Full Moon" -> 120
                  [] w.moon_phase = "Waxing Gibbous" -> 110
                  [] OTHER -> 100
        W == (IF 15 <= w.wind_speed_ms /\ w.wind_speed_ms <= 50 THEN 5 ELSE 0)
             + (IF w.cloud_cover_percent >= 75 THEN 5 ELSE 0)
    IN  10 * T + 3 * pct + tenM + 10 * W

\* C2: for every valid profile, weather snapshot and hour the score equals the
\* truncation to an integer, clamped to 0..100, of
\* T + (pct/100)*30 + 20*m*0.5 + W with T, pct, m and W as the claim gives them.
C2_ScoreFormula ==
    (IsCall("rule_based_activity_score") /\ ValidProfile(call.args[1])
        /\ call.args[2] \in FullWeather)
    => (/\ ~IsError(call.result)
        /\ call.result.score
             = Min(100, Max(0, C2_Sum(call.args[1], call.args[2], call.args[3]) \div 10)))

\* a sum with a fractional part, which the truncation drops
C2_Witness ==
    /\ IsCall("rule_based_activity_score")
    /\ ValidProfile(call.args[1])
    /\ call.args[2] \in FullWeather
    /\ call.args[2].moon_phase = "New Moon"
    /\ C2_Sum(call.args[1], call.args[2], call.args[3]) = 769
    /\ call.result.score = 76

\* C3: feeding_mode is total over the integers: aggressive exactly when
\* score > 75, moderate exactly when 40 <= score <= 75, passive exactly when
\* score < 40; feeding_mode(76) = aggressive, feeding_mode(75) = moderate,
\* feeding_mode(40) = moderate, feeding_mode(39) = passive.
C3_FeedingMode ==
    IsCall("feeding_mode")
    => LET s == call.args[1]
           r == call.result
       IN  /\ r \in Modes
           /\ (r = "aggressive") <=> (s > 75)
           /\ (r = "moderate") <=> (40 <= s /\ s <= 75)
           /\ (r = "passive") <=> (s < 40)
           /\ (s = 76) => (r = "aggressive")
           /\ (s = 75) => (r = "moderate")
           /\ (s = 40) => (r = "moderate")
           /\ (s = 39) => (r = "passive")

C3_Witness == IsCall("feeding_mode") /\ call.args[1] = 75 /\ call.result = "moderate"

\* C4: score_lure returns 20, plus 30 if the feeding mode is in best_modes,
\* plus either 15 (water_temp < 10 and slow) or 10 (water_temp >= 10 and fast)
\* but never both, plus 15 if cloud_cover > 70 and visibility high, plus 10 if
\* wind_speed > 4 and type reaction; never below 20 nor above 100; and 90 for
\* a matching mode, water_temp 5, slow, cloud_cover 80, high, wind 5, reaction.
C4_ScoreLure ==
    IsCall("score_lure")
    => LET lure == call.args[1]
           ctx == call.args[2]
           cold == ctx.water_temp < 100 /\ lure.speed = "slow"
           warm == ctx.water_temp >= 100 /\ lure.speed = "fast"
           expected == 20 + (IF ctx.feeding_mode \in lure.best_modes THEN 30 ELSE 0)
                          + (IF cold THEN 15 ELSE 0) + (IF warm THEN 10 ELSE 0)
                          + (IF ctx.cloud_cover > 70 /\ lure.visibility = "high" THEN 15 ELSE 0)
                          + (IF ctx.wind_speed > 40 /\ lure.type = "reaction" THEN 10 ELSE 0)
       IN  /\ ~(cold /\ warm)
           /\ call.result = expected
           /\ 20 <= call.result /\ call.result <= 100
           /\ (/\ ctx.feeding_mode \in lure.best_modes /\ ctx.water_temp = 50
               /\ lure.speed = "slow" /\ ctx.cloud_cover = 80 /\ lure.visibility = "high"
               /\ ctx.wind_speed = 50 /\ lure.type = "reaction") => call.result = 90

C4_Witness ==
    /\ IsCall("score_lure")
    /\ call.args[2].feeding_mode \in call.args[1].best_modes
    /\ call.args[2].water_temp = 50 /\ call.args[1].speed = "slow"
    /\ call.args[2].cloud_cover = 80 /\ call.args[1].visibility = "high"
    /\ call.args[2].wind_speed = 50 /\ call.args[1].type = "reaction"
    /\ call.result = 90

\* C5: for top_n >= 0 recommended_lures returns min(top_n, number of lures)
\* entries with non-increasing confidences, entries of equal confidence in
\* catalog order, and no omitted lure more confident than a returned one; an
\* empty or absent catalog gives the empty sequence. pick maps each returned
\* entry to the catalog position it comes from.
C5_RecommendedLures ==
    (IsCall("recommended_lures") /\ call.args[3] >= 0)
    => LET p == call.args[1]
           ctx == call.args[2]
           res == call.result
           catalog == IF "lures" \in DOMAIN p THEN p.lures ELSE <<>>
           conf(k) == score_lure(catalog[k], ctx)
       IN  /\ Len(res) = Min(call.args[3], Len(catalog))
           /\ (catalog = <<>>) => (res = <<>>)
           /\ \A i \in 1..(Len(res) - 1) : res[i].confidence >= res[i + 1].confidence
           /\ \E pick \in [1..Len(res) -> 1..Len(catalog)] :
                /\ \A i \in 1..Len(res) :
                     /\ res[i].name = catalog[pick[i]].name
                     /\ res[i].confidence = conf(pick[i])
                /\ \A i, j \in 1..Len(res) : (i # j) => (pick[i] # pick[j])
                /\ \A i, j \in 1..Len(res) :
                     (i < j /\ res[i].confidence = res[j].confidence) => (pick[i] < pick[j])
                /\ \A k \in 1..Len(catalog) :
                     (\A i \in 1..Len(res) : pick[i] # k)
                     => (\A i \in 1..Len(res) : conf(k) <= res[i].confidence)

\* Spoon and Jerkbait tie at 75 and come back in catalog order; Jig is left out
C5_Witness ==
    /\ IsCall("recommended_lures")
    /\ "lures" \in DOMAIN call.args[1]
    /\ call.args[1].lures = <<Jig, Jerkbait, Spoon>>
    /\ call.args[3] = 2
    /\ call.result = <<[name |-> "Jerkbait", confidence |-> 75],
                       [name |-> "Spoon", confidence |-> 75]>>

\* C6: time_of_day_label returns exactly one label, by the first matching rule
\* of dawn (sunrise-2 <= h < sunrise), day (sunrise <= h < sunset), dusk
\* (sunset <= h < sunset+2), otherwise night, with no wraparound across
\* midnight; with sunrise 7 and sunset 17: dawn for 6, day for 12, dusk for 18,
\* night for 2.
C6_TimeOfDayLabel ==
    IsCall("time_of_day_label")
    => LET h == call.args[1]
           sunrise == call.args[2]
           sunset == call.args[3]
           r == call.result
           dawn == sunrise - 2 <= h /\ h < sunrise
           day == sunrise <= h /\ h < sunset
           dusk == sunset <= h /\ h < sunset + 2
       IN  /\ r \in {"dawn", "day", "dusk", "night"}
           /\ (r = "dawn") <=> dawn
           /\ (r = "day") <=> (~dawn /\ day)
           /\ (r = "dusk") <=> (~dawn /\ ~day /\ dusk)
           /\ (r = "night") <=> (~dawn /\ ~day /\ ~dusk)
           /\ (sunrise = 7 /\ sunset = 17)
              => /\ (h = 6) => (r = "dawn")
                 /\ (h = 12) => (r = "day")
                 /\ (h = 18) => (r = "dusk")
                 /\ (h = 2) => (r = "night")

\* sunset before sunrise: hour 9 is in the dawn and in the dusk window, and
\* dawn, the first rule, wins
C6_Witness == IsCall("time_of_day_label") /\ call.args = <<9, 10, 8>> /\ call.result = "dawn"

\* The cycle position the claim C8 speaks of: the elapsed time brought into
\* [0, 29.530588 days) by adding or subtracting whole cycles, in ticks.
C8_Position(dt) ==
    LET t == (dt - known_new_moon) * TicksPerSecond
    IN  IF t >= 0 THEN (IF t < SYNODIC_MONTH THEN t ELSE t - SYNODIC_MONTH)
        ELSE IF t + SYNODIC_MONTH >= 0 THEN t + SYNODIC_MONTH
        ELSE (t + SYNODIC_MONTH) + SYNODIC_MONTH

\* the phase boundaries of the claim, in hundredths of a day, and the phase
\* that begins at each
C8_Boundaries == <<184, 553, 922, 1291, 1660, 2029, 2398, 2767>>

C8_Phases ==
    <<"New Moon", "Waxing Crescent", "First Quarter", "Waxing Gibbous", "Full Moon",
      "Waning Gibbous", "Last Quarter", "Waning Crescent", "New Moon">>

\* C8: before or after the reference epoch, get_moon_phase reduces the elapsed
\* days to a cycle position d with 0 <= d < 29.530588 and returns the phase of
\* the claim's table for d (New Moon again from 27.67 on); at the epoch itself
\* it returns ("New Moon", 0.0).
C8_MoonPhase ==
    IsCall("get_moon_phase")
    => LET dt == call.args[1]
           d == C8_Position(dt)
           passed == Cardinality({i \in 1..Len(C8_Boundaries) : d >= C8_Boundaries[i] * 540000})
       IN  /\ 0 <= d /\ d < SYNODIC_MONTH
           /\ cycle_fraction(dt) = d
           /\ call.result[1] = C8_Phases[passed + 1]
           /\ (dt = known_new_moon) => (call.result = <<"New Moon", 0>>)

\* a datetime before the epoch, in the residual past 27.67 days
C8_Witness ==
    /\ IsCall("get_moon_phase")
    /\ call.args[1] < known_new_moon
    /\ C8_Position(call.args[1]) >= 2767 * 540000
    /\ call.result[1] = "New Moon"

(***************************************************************************)
(* Properties of the endpoints, checked under Spec.                        *)
(***************************************************************************)

\* the step in which predict() calls the scorer with a profile that lacks a
\* required field: the call raises, the request ends with the error, and
\* the catalog and the log are as before
C7_FailingCall ==
    (request.pc = "loop" /\ request' # request /\ ~HasRequiredFields(request.species_profile))
    => /\ request' = Idle
       /\ response'.endpoint = "predict"
       /\ response'.status = 500
       /\ IsError(response'.body)
       /\ response'.body.key \in RequiredProfileFields \ DOMAIN request.species_profile
       /\ SPECIES_PROFILES' = SPECIES_PROFILES
       /\ USER_LOGS' = USER_LOGS

\* no /predict response carries a score for a profile that lacks a field
C7_NoDefaultedResult ==
    (response.endpoint = "predict" /\ response.status = 200)
    => HasRequiredFields(SPECIES_PROFILES[response.body.species])

\* C7: if best_temp_low, best_temp_high, preferred_times_json or display_name
\* is absent from the profile, rule_based_activity_score fails with an error
\* instead of returning a result computed from a default, and the failing
\* call changes neither the species catalog nor the feedback log.
C7_MissingFieldFails == []C7_NoDefaultedResult /\ [][C7_FailingCall]_vars

\* the call failed on the last field the scorer reads, with a log that holds
\* entries
C7_Witness ==
    /\ response.endpoint = "predict"
    /\ response.status = 500
    /\ response.body = KeyError("display_name")
    /\ Len(USER_LOGS) = MaxLogs

\* one iteration of the loop: the hour's window is appended exactly when its
\* computed score is above 75
C9_HourStep ==
    (request.pc = "loop" /\ request'.pc = "loop" /\ request' # request)
    => LET dt_hour == request.current_time + request.i * 3600
       IN  /\ request.i \in 0..23
           /\ request'.i = request.i + 1
           /\ request'.best_time_windows =
                IF request'.score > 75
                THEN Append(request.best_time_windows,
                            [start |-> dt_hour, end |-> dt_hour + 3600, score |-> request'.score])
                ELSE request.best_time_windows

\* the step that answers: the response's windows against the windows the
\* loop collected
C9_FinishStep ==
    (request.pc = "loop" /\ request' = Idle /\ response'.status = 200)
    => LET all == request.best_time_windows
           top == response'.body.best_time_windows
           left_out == {m \in 1..Len(all) : \A k \in 1..Len(top) : top[k] # all[m]}
       IN  /\ request.i = 24
           /\ Len(top) <= 3
           /\ \A k \in 1..Len(top) :
                /\ top[k].score > 75
                /\ \E h \in 0..23 : top[k].start = request.current_time + h * 3600
                /\ top[k].end = top[k].start + 3600
                /\ \E m \in 1..Len(all) : all[m] = top[k]
           /\ \A k \in 1..(Len(top) - 1) :
                /\ top[k].score >= top[k + 1].score
                /\ (top[k].score = top[k + 1].score) => (top[k].start < top[k + 1].start)
           /\ \A m \in left_out : \A k \in 1..Len(top) : all[m].score <= top[k].score

\* a /predict response, by itself
C9_Response ==
    (response.endpoint = "predict" /\ response.status = 200)
    => LET top == response.body.best_time_windows
       IN  /\ Len(top) <= 3
           /\ \A k \in 1..Len(top) : top[k].score > 75 /\ top[k].end = top[k].start + 3600
           /\ \A k \in 1..(Len(top) - 1) :
                /\ top[k].score >= top[k + 1].score
                /\ (top[k].score = top[k + 1].score) => (top[k].start < top[k + 1].start)

\* C9: in every successful /predict response best_time_windows has at most 3
\* entries, each a one-hour window at one of the hourly offsets 0..23 from the
\* request time whose computed score is above 75, in non-increasing score
\* order with equal scores in chronological order, and no window left out has
\* a higher score than one included (a window the loop did not collect scored
\* 75 or less; a collected one that was cut scores no more than any kept).
C9_BestTimeWindows == []C9_Response /\ [][C9_HourStep /\ C9_FinishStep]_vars

\* three windows, two of equal score in chronological order, the third an
\* earlier hour that the sort moved behind them
C9_Witness ==
    /\ response.endpoint = "predict"
    /\ response.status = 200
    /\ Len(response.body.best_time_windows) = 3
    /\ response.body.best_time_windows[1].score = response.body.best_time_windows[2].score
    /\ response.body.best_time_windows[1].start < response.body.best_time_windows[2].start
    /\ response.body.best_time_windows[3].start < response.body.best_time_windows[1].start

\* accepted as the claim C10 has it: lat, lon, species and caught present and
\* the species in the catalog
C10_Accepted(data) ==
    /\ FeedbackFields \subseteq DOMAIN data
    /\ get_species_profile(SPECIES_PROFILES, data.species) # None

C10_Step ==
    /\ Len(USER_LOGS') >= Len(USER_LOGS)
    /\ SubSeq(USER_LOGS', 1, Len(USER_LOGS)) = USER_LOGS
    /\ (response'.endpoint # "feedback") => (USER_LOGS' = USER_LOGS)
    /\ (response'.endpoint = "feedback" /\ response' # response)
       => IF C10_Accepted(response'.request)
          THEN /\ USER_LOGS' # USER_LOGS
               /\ Len(USER_LOGS') = Len(USER_LOGS) + 1
               /\ response'.body.total_logs = Len(USER_LOGS')
          ELSE /\ USER_LOGS' = USER_LOGS
               /\ response'.status \in {400, 404}

\* C10: the feedback log is append-only: each accepted /feedback request (all
\* of lat, lon, species, caught present and the species in the catalog)
\* appends exactly one entry and reports total_logs equal to the log length
\* after the append; a rejected one (400, 404) and every /predict or /nearby
\* request leave the log unchanged; no entry is ever removed or modified.
C10_AppendOnly == [][C10_Step]_vars

\* the label of activity_label that names the same class as a feeding mode
LabelOfMode(mode) ==
    CASE mode = "aggressive" -> "high"
      [] mode = "moderate" -> "medium"
      [] mode = "passive" -> "low"

\* C11: in every successful /predict response, activity_label and
\* feeding_mode classify the activity_score alike: the label is "high"
\* exactly when the mode is "aggressive", "medium" exactly when it is
\* "moderate" and "low" exactly when it is "passive".
C11_LabelMatchesMode ==
    (response.endpoint = "predict" /\ response.status = 200)
        => response.body.activity_label = LabelOfMode(response.body.feeding_mode)

====
